---- MODULE Spec2Model ----
(***************************************************************************)
(* Model of src/app/auth/services.py: the service layer of the gym         *)
(* application (registration, authentication, e-mail verification, coach   *)
(* and workout accessors) over a relational store.                         *)
(*                                                                         *)
(* Strings that the code transforms (email, name) are sequences of         *)
(* one-character strings, so that lower() and strip() are computed.        *)
(* Tables are sequences of rows in insertion order; Query(...).first() is  *)
(* the first matching row.                                                 *)
(***************************************************************************)
EXTENDS Integers, Sequences, FiniteSets, TLC

VARIABLES users, profiles, coaches, verifications, workouts, mails,
          pending, enable_email, ret, registered

vars == <<users, profiles, coaches, verifications, workouts, mails,
          pending, enable_email, ret, registered>>

----------------------------------------------------------------------------
(* Bounds of the model *)

MaxUsers == 2
MaxProfiles == 2
MaxCoaches == 2
MaxVerifications == 2
MaxMails == 2
MaxWorkouts == 2
MaxId == 3

----------------------------------------------------------------------------
(* Input domains *)

\* Strings are sequences of characters; "A" is an upper-case letter and " "
\* is whitespace.  The emails normalise to "a", "aa" and "a a".
Emails ==
    {<<"a">>, <<"A">>, <<" ", "a">>, <<"a", " ">>,
     <<"a", "a">>, <<"A", "a">>, <<"a", " ", "A">>}
Names == {<<"A", " ">>}
Passwords == {"p1", "p2"}
Salts == {"s1", "s2"}
Tokens == {"t1", "t2"}
Ids == 0..MaxId

None == [isNone |-> TRUE]

----------------------------------------------------------------------------
(* str.lower() and str.strip() *)

LowerChar(c) == IF c = "A" THEN "a" ELSE c

Lower(s) == [i \in 1..Len(s) |-> LowerChar(s[i])]

IsSpace(c) == c = " "

RECURSIVE LStrip(_)
LStrip(s) ==
    IF s # <<>> /\ IsSpace(Head(s)) THEN LStrip(Tail(s)) ELSE s

RECURSIVE RStrip(_)
RStrip(s) ==
    IF s # <<>> /\ IsSpace(s[Len(s)]) THEN RStrip(SubSeq(s, 1, Len(s) - 1)) ELSE s

Strip(s) == RStrip(LStrip(s))

----------------------------------------------------------------------------
(* passlib CryptContext(schemes=["bcrypt"]): hash draws a salt, verify      *)
(* re-hashes the candidate with the salt stored in the hash and compares.   *)

Hash(password, salt) == [salt |-> salt, digest |-> <<salt, password>>]

Verify(password, hashed_pass) == Hash(password, hashed_pass.salt) = hashed_pass

----------------------------------------------------------------------------
(* The store *)

Rows(table) == {table[i] : i \in 1..Len(table)}

\* Autoincrement primary key of a table.
NextId(table) == Len(table) + 1

\* db.query(T).filter(...).first(): the first of the rows the filter
\* matched (given by their positions), or None.
First(table, matched) ==
    IF matched = {} THEN None
    ELSE table[CHOOSE i \in matched : \A j \in matched : i <= j]

\* Variants of the schema without the unique constraints.
UserEmailUnique_unchecked(table, row) == TRUE

OnePerUser_unchecked(table, row) == TRUE

\* Constraints of the schema, checked by the store at commit.

UserEmailUnique(table, row) == \A r \in Rows(table) : r.email # row.email

OnePerUser(table, row) == \A r \in Rows(table) : r.user_id # row.user_id

UserIdExists(table, user_id) == \E r \in Rows(table) : r.id = user_id

Call(op, arg, val, msg, exc) ==
    [op |-> op, arg |-> arg, val |-> val, msg |-> msg, exc |-> exc]

----------------------------------------------------------------------------
Init ==
    /\ users = <<>>
    /\ profiles = <<>>
    /\ coaches = <<>>
    /\ verifications = <<>>
    /\ workouts = <<>>
    /\ mails = <<>>
    /\ pending = {}
    /\ enable_email \in BOOLEAN
    /\ ret = Call("init", None, None, "", FALSE)
    /\ registered = <<>>

----------------------------------------------------------------------------
(* Registration and authentication *)

UserByEmail(email) ==
    First(users, {i \in 1..Len(users) : users[i].email = email})

UserById(user_id) ==
    First(users, {i \in 1..Len(users) : users[i].id = user_id})

NewUser(email, name, password, salt) ==
    [id |-> NextId(users),
     email |-> Strip(Lower(email)),
     name |-> Strip(Lower(name)),
     hashed_password |-> Hash(password, salt)]

create_user(email, name, password, salt) ==
    LET db_user == NewUser(email, name, password, salt)
        arg == [email |-> email, name |-> name, password |-> password]
    IN /\ Len(users) < MaxUsers
       /\ IF UserEmailUnique(users, db_user)
          THEN /\ users' = Append(users, db_user)
               /\ registered' = Append(registered, arg)
               /\ ret' = Call("create_user", arg, db_user, "", FALSE)
          ELSE /\ users' = users
               /\ registered' = registered
               /\ ret' = Call("create_user", arg, None, "IntegrityError", TRUE)
       /\ UNCHANGED <<profiles, coaches, verifications, workouts, mails,
                      pending, enable_email>>

user_already_exists(email) ==
    /\ ret' = Call("user_already_exists", [email |-> email],
                   UserByEmail(email), "", FALSE)
    /\ UNCHANGED <<users, profiles, coaches, verifications, workouts, mails,
                   pending, enable_email, registered>>

AuthResult(username, password) ==
    LET db_user == UserByEmail(username)
    IN IF db_user = None
       THEN <<None, "User doesnt exists">>
       ELSE IF ~Verify(password, db_user.hashed_password)
            THEN <<None, "Password didn't match">>
            ELSE <<db_user, "User found">>

authentication(username, password) ==
    LET r == AuthResult(username, password)
    IN /\ ret' = Call("authentication",
                      [username |-> username, password |-> password],
                      r[1], r[2], FALSE)
       /\ UNCHANGED <<users, profiles, coaches, verifications, workouts, mails,
                      pending, enable_email, registered>>

Register ==
    \E email \in Emails, name \in Names, password \in Passwords, salt \in Salts :
        create_user(email, name, password, salt)

Lookup == \E email \in Emails : user_already_exists(email)

Authenticate ==
    \E username \in Emails, password \in Passwords :
        authentication(username, password)

NextAuth == Register \/ Lookup \/ Authenticate

SpecAuth == Init /\ [][NextAuth]_vars

----------------------------------------------------------------------------
(* Profiles and coaches *)

ProfileInputs ==
    {[gender |-> "f", age |-> 30, weight |-> 60, height |-> 170,
      goal |-> "fit", physical_activity_level |-> "low"]}

Experiences == {"senior"}

NewProfile(profile, user_id) ==
    [id |-> NextId(profiles),
     gender |-> profile.gender,
     age |-> profile.age,
     weight |-> profile.weight,
     height |-> profile.height,
     goal |-> profile.goal,
     physical_activity_level |-> profile.physical_activity_level,
     user_id |-> user_id]

create_user_profile(profile, user_id) ==
    LET db_profile == NewProfile(profile, user_id)
        arg == [profile |-> profile, user_id |-> user_id]
    IN /\ Len(profiles) < MaxProfiles
       /\ IF OnePerUser(profiles, db_profile) /\ UserIdExists(users, user_id)
          THEN /\ profiles' = Append(profiles, db_profile)
               /\ ret' = Call("create_user_profile", arg, db_profile, "", FALSE)
          ELSE /\ profiles' = profiles
               /\ ret' = Call("create_user_profile", arg, None,
                              "IntegrityError", TRUE)
       /\ UNCHANGED <<users, coaches, verifications, workouts, mails,
                      pending, enable_email, registered>>

NewCoach(user_id, experience) ==
    [id |-> NextId(coaches),
     user_id |-> user_id,
     experience |-> experience,
     is_active |-> TRUE]

create_coach_data(user_id, experience) ==
    LET db_coach == NewCoach(user_id, experience)
        arg == [user_id |-> user_id, experience |-> experience]
    IN /\ Len(coaches) < MaxCoaches
       /\ IF OnePerUser(coaches, db_coach) /\ UserIdExists(users, user_id)
          THEN /\ coaches' = Append(coaches, db_coach)
               /\ ret' = Call("create_coach_data", arg, db_coach, "", FALSE)
          ELSE /\ coaches' = coaches
               /\ ret' = Call("create_coach_data", arg, None,
                              "IntegrityError", TRUE)
       /\ UNCHANGED <<users, profiles, verifications, workouts, mails,
                      pending, enable_email, registered>>

\* Python truthiness of an optional integer argument: None and 0 are falsy.
NoId == -1

Truthy(id) == id # NoId /\ id # 0

CoachById(coach_id) ==
    First(coaches, {i \in 1..Len(coaches) : coaches[i].id = coach_id})

CoachByUserId(user_id) ==
    First(coaches, {i \in 1..Len(coaches) : coaches[i].user_id = user_id})

ProfileOfUser(user_id) ==
    First(profiles, {i \in 1..Len(profiles) : profiles[i].user_id = user_id})

CoachOut(coach) ==
    [id |-> coach.id, user_id |-> coach.user_id,
     experience |-> coach.experience, is_active |-> coach.is_active]

UserOut(user) == [id |-> user.id, email |-> user.email, name |-> user.name]

\* Variants: the coach_id branch filtering on the user_id column, and a
\* lookup that falls back to user_id when coach_id matches no coach.
CoachLookup_by_user(coach_id, user_id) ==
    IF Truthy(coach_id) THEN CoachByUserId(coach_id)
    ELSE IF Truthy(user_id) THEN CoachByUserId(user_id)
    ELSE None

CoachLookup_fallback(coach_id, user_id) ==
    IF Truthy(coach_id) /\ CoachById(coach_id) # None THEN CoachById(coach_id)
    ELSE IF Truthy(user_id) THEN CoachByUserId(user_id)
    ELSE None

CoachLookup(coach_id, user_id) ==
    IF Truthy(coach_id) THEN CoachById(coach_id)
    ELSE IF Truthy(user_id) THEN CoachByUserId(user_id)
    ELSE None

\* <<value returned, exception raised>>
CoachData(coach_id, user_id) ==
    LET coach == CoachLookup(coach_id, user_id)
    IN IF coach = None THEN <<None, FALSE>>
       ELSE LET user == UserById(coach.user_id)
            IN IF user = None THEN <<None, TRUE>>
               ELSE <<[coach |-> CoachOut(coach),
                       user |-> UserOut(user),
                       profile |-> ProfileOfUser(user.id)], FALSE>>

get_coach_data(coach_id, user_id) ==
    LET r == CoachData(coach_id, user_id)
    IN /\ ret' = Call("get_coach_data",
                      [coach_id |-> coach_id, user_id |-> user_id],
                      r[1], "", r[2])
       /\ UNCHANGED <<users, profiles, coaches, verifications, workouts, mails,
                      pending, enable_email, registered>>

CoachEmails == {<<"a">>, <<"A", "a">>, <<"a", " ", "A">>}

RegisterFew ==
    \E email \in CoachEmails :
        create_user(email, <<"A", " ">>, "p1", "s1")

CreateProfile ==
    \E profile \in ProfileInputs, user_id \in Ids :
        create_user_profile(profile, user_id)

CreateCoach ==
    \E user_id \in Ids, experience \in Experiences :
        create_coach_data(user_id, experience)

GetCoach ==
    \E coach_id \in Ids \cup {NoId}, user_id \in Ids \cup {NoId} :
        get_coach_data(coach_id, user_id)

NextCoach == RegisterFew \/ CreateProfile \/ CreateCoach \/ GetCoach

SpecCoach == Init /\ [][NextCoach]_vars

----------------------------------------------------------------------------
(* E-mail verification *)

base_url == "BASE_URL"

\* Variant: the link is built from another token than the one persisted.
VerificationLink_regenerated(token) ==
    <<base_url, "/verify-email?token=", IF token = "t1" THEN "t2" ELSE "t1">>

VerificationLink(token) == <<base_url, "/verify-email?token=", token>>

NewVerification(user, verification_code) ==
    [id |-> NextId(verifications),
     verification_code |-> verification_code,
     user_id |-> user.id]

Message(user, token) ==
    [subject |-> "Email Verification",
     recipients |-> <<user.email>>,
     body |-> <<"Click the link to verify your email: ", VerificationLink(token)>>,
     subtype |-> "html"]

\* Variants: the record written from the user_id argument without the
\* lookup, and the lookup result used without the `if user` test.
send_verification_email_unchecked(user_id, token) ==
    LET arg == [user_id |-> user_id, token |-> token]
    IN /\ Len(verifications) < MaxVerifications
       /\ verifications' =
              Append(verifications, NewVerification([id |-> user_id], token))
       /\ ret' = Call("send_verification_email", arg, None, "returned", FALSE)
       /\ UNCHANGED <<users, profiles, coaches, workouts, mails, pending,
                      enable_email, registered>>

send_verification_email_unguarded(user_id, token) ==
    LET user == UserById(user_id)
        arg == [user_id |-> user_id, token |-> token]
    IN /\ IF user # None
          THEN /\ Len(verifications) < MaxVerifications
               /\ verifications' =
                      Append(verifications, NewVerification(user, token))
               /\ ret' = Call("send_verification_email", arg, None,
                              "returned", FALSE)
          ELSE /\ verifications' = verifications
               /\ ret' = Call("send_verification_email", arg, None,
                              "AttributeError", TRUE)
       /\ UNCHANGED <<users, profiles, coaches, workouts, mails, pending,
                      enable_email, registered>>

\* Up to the await of fm.send_message: the lookup, the Verification row and
\* its commit, and the message; without ENABLE_EMAIL the call returns here.
send_verification_email(user_id, token) ==
    LET user == UserById(user_id)
        arg == [user_id |-> user_id, token |-> token]
    IN /\ IF user # None
          THEN /\ Len(verifications) < MaxVerifications
               /\ verifications' =
                      Append(verifications, NewVerification(user, token))
               /\ IF enable_email
                  THEN /\ Cardinality(pending) < MaxMails
                       /\ pending' = pending \cup {Message(user, token)}
                       /\ ret' = Call("send_verification_email", arg, None,
                                      "awaiting send_message", FALSE)
                  ELSE /\ pending' = pending
                       /\ ret' = Call("send_verification_email", arg, None,
                                      "returned", FALSE)
          ELSE /\ verifications' = verifications
               /\ pending' = pending
               /\ ret' = Call("send_verification_email", arg, None,
                              "User not found with user_id", FALSE)
       /\ UNCHANGED <<users, profiles, coaches, workouts, mails,
                      enable_email, registered>>

\* fm.send_message(message) completes: the mail is sent, or the mail
\* collaborator raises and the exception reaches the caller.
send_message(message, ok) ==
    /\ message \in pending
    /\ pending' = pending \ {message}
    /\ IF ok
       THEN /\ Len(mails) < MaxMails
            /\ mails' = Append(mails, message)
            /\ ret' = Call("send_message", message, None, "returned", FALSE)
       ELSE /\ mails' = mails
            /\ ret' = Call("send_message", message, None, "raised", TRUE)
    /\ UNCHANGED <<users, profiles, coaches, verifications, workouts,
                   enable_email, registered>>

VerifEmails == {<<"A">>, <<"a", " ">>, <<"a", "a">>}

RegisterForVerification ==
    \E email \in VerifEmails :
        create_user(email, <<"A", " ">>, "p1", "s1")

SendVerification ==
    \E user_id \in Ids, token \in Tokens :
        send_verification_email(user_id, token)

Dispatch == \E message \in pending, ok \in BOOLEAN : send_message(message, ok)

NextVerif == RegisterForVerification \/ SendVerification \/ Dispatch

SpecVerif == Init /\ [][NextVerif]_vars

----------------------------------------------------------------------------
(* Workouts *)

WorkoutInputs ==
    [name : {"push", "pull"},
     target_muscle : {"chest"},
     total_time : {30, 45},
     description : {"push"},
     calories_burn : {200},
     workout_plan_id : {1, 2}]

\* Where the session fails: nowhere, or in db.add, db.commit or db.refresh.
Failures == {"none", "add", "commit", "refresh"}

NewWorkout(workout) ==
    [id |-> NextId(workouts),
     name |-> workout.name,
     target_muscle |-> workout.target_muscle,
     total_time |-> workout.total_time,
     description |-> workout.description,
     calories_burn |-> workout.calories_burn,
     workout_plan_id |-> workout.workout_plan_id]

\* Variant without the except clause: the failure reaches the caller.
SaveResult_propagates(db_workout, fail) ==
    IF fail = "none" THEN <<db_workout, FALSE>> ELSE <<None, TRUE>>

\* <<value returned, exception raised>>: the except clause catches the
\* failure of any step and returns None.
SaveResult(db_workout, fail) ==
    IF fail = "none" THEN <<db_workout, FALSE>> ELSE <<None, FALSE>>

save_workouts(workout, fail) ==
    LET db_workout == NewWorkout(workout)
        r == SaveResult(db_workout, fail)
    IN /\ Len(workouts) < MaxWorkouts
       /\ workouts' = IF fail \in {"none", "refresh"}
                      THEN Append(workouts, db_workout)
                      ELSE workouts
       /\ ret' = Call("save_workouts", [workout |-> workout, fail |-> fail],
                      r[1], "", r[2])
       /\ UNCHANGED <<users, profiles, coaches, verifications, mails,
                      pending, enable_email, registered>>

WorkoutById(workout_id) ==
    First(workouts, {i \in 1..Len(workouts) : workouts[i].id = workout_id})

get_workout_by_id(workout_id) ==
    LET db_workout == WorkoutById(workout_id)
    IN /\ ret' = IF db_workout = None
                 THEN Call("get_workout_by_id", [workout_id |-> workout_id],
                           None, "Workout doesn't exists ", FALSE)
                 ELSE Call("get_workout_by_id", [workout_id |-> workout_id],
                           db_workout, "found", FALSE)
       /\ UNCHANGED <<users, profiles, coaches, verifications, workouts, mails,
                      pending, enable_email, registered>>

SaveWorkout ==
    \E workout \in WorkoutInputs, fail \in Failures : save_workouts(workout, fail)

GetWorkout == \E workout_id \in Ids : get_workout_by_id(workout_id)

NextWorkout == SaveWorkout \/ GetWorkout

SpecWorkout == Init /\ [][NextWorkout]_vars

----------------------------------------------------------------------------
(* Properties *)

Norm(s) == Strip(Lower(s))

HasUserId(id) == \E u \in Rows(users) : u.id = id

\* C1 (as claimed): for every registered user, with the email e and password
\* p given to create_user, authentication(e, p) returns (that User, "User
\* found") and authentication(e, q), q # p, returns (None, "Password didn't
\* match"); authentication with an email no User has returns (None, "User
\* doesn't exists").
C1_AuthenticateAsClaimed ==
    ret.op = "authentication" =>
        /\ \A i \in 1..Len(users) :
               registered[i].email = ret.arg.username =>
                   IF registered[i].password = ret.arg.password
                   THEN ret.val = users[i] /\ ret.msg = "User found"
                   ELSE ret.val = None /\ ret.msg = "Password didn't match"
        /\ (\A u \in Rows(users) : u.email # ret.arg.username) =>
               ret.val = None /\ ret.msg = "User doesn't exists"

\* C2 (as claimed): user_already_exists with any email equal, up to letter
\* case and surrounding whitespace, to the email a user was registered with
\* returns that User.
C2_RoundTripAsClaimed ==
    ret.op = "user_already_exists" =>
        \A i \in 1..Len(users) :
            Norm(ret.arg.email) = Norm(registered[i].email) =>
                ret.val = users[i]

\* C3: no two User records have the same stored email.
C3_EmailUnique ==
    \A i, j \in 1..Len(users) : i # j => users[i].email # users[j].email

\* A registration whose email differs from a stored one only in case or
\* whitespace has been refused.
C3_Witness ==
    /\ ret.op = "create_user"
    /\ ret.exc
    /\ \E u \in Rows(users) :
           u.email = Norm(ret.arg.email) /\ u.email # ret.arg.email

\* C4: each User has at most one Profile record and at most one Coach record.
C4_OnePerUser ==
    /\ \A i, j \in 1..Len(profiles) :
           i # j => profiles[i].user_id # profiles[j].user_id
    /\ \A i, j \in 1..Len(coaches) :
           i # j => coaches[i].user_id # coaches[j].user_id

\* create_coach_data has been called again for a user who has a Coach, and
\* that user also has a Profile.
C4_Witness ==
    /\ ret.op = "create_coach_data"
    /\ ret.exc
    /\ \E c \in Rows(coaches) : c.user_id = ret.arg.user_id
    /\ \E p \in Rows(profiles) : p.user_id = ret.arg.user_id

\* C5: every Verification record's user_id is the id of an existing User.
C5_VerificationUserExists ==
    \A v \in Rows(verifications) : HasUserId(v.user_id)

\* A record exists and the last call named a user id that does not resolve.
C5_Witness ==
    /\ ret.op = "send_verification_email"
    /\ ~HasUserId(ret.arg.user_id)
    /\ Len(verifications) > 0

\* A step of send_verification_email whose user_id matches no User leaves the
\* Verification records, the mails sent and the mails being sent as they are.
C6_UnknownUserStep ==
    (ret'.op = "send_verification_email" /\ ~HasUserId(ret'.arg.user_id)) =>
        /\ verifications' = verifications
        /\ mails' = mails
        /\ pending' = pending
        /\ ret'.val = None
        /\ ~ret'.exc

\* C6: send_verification_email with a user_id that matches no User returns
\* None without an exception, creates no Verification record and dispatches
\* no mail, whatever the flag.
C6_UnknownUserSilent == [][C6_UnknownUserStep]_vars

\* With the flag set and a user registered, the last call named an id that
\* does not resolve.

C6_Witness ==
    /\ ret.op = "send_verification_email"
    /\ ~HasUserId(ret.arg.user_id)
    /\ enable_email
    /\ Len(users) > 0

\* C7: save_workouts never lets an exception reach the caller; without a
\* failure it returns a Workout whose fields equal the input, and when add,
\* commit or refresh fails it returns None.
C7_SaveWorkout ==
    ret.op = "save_workouts" =>
        /\ ~ret.exc
        /\ IF ret.arg.fail = "none"
           THEN /\ ret.val # None
                /\ ret.val.name = ret.arg.workout.name
                /\ ret.val.target_muscle = ret.arg.workout.target_muscle
                /\ ret.val.total_time = ret.arg.workout.total_time
                /\ ret.val.description = ret.arg.workout.description
                /\ ret.val.calories_burn = ret.arg.workout.calories_burn
                /\ ret.val.workout_plan_id = ret.arg.workout.workout_plan_id
           ELSE ret.val = None

\* A save has succeeded and a later one has failed in commit.
C7_Witness ==
    /\ ret.op = "save_workouts"
    /\ ret.arg.fail = "commit"
    /\ ret.val = None
    /\ Len(workouts) = 1

Given(id) == id # NoId /\ id # 0

HoldsCoach(val, c) ==
    /\ val # None
    /\ val.coach.id = c.id
    /\ val.coach.user_id = c.user_id
    /\ val.coach.experience = c.experience
    /\ \E u \in Rows(users) :
           /\ u.id = c.user_id
           /\ val.user.id = u.id
           /\ val.user.email = u.email
    /\ IF \E p \in Rows(profiles) : p.user_id = c.user_id
       THEN val.profile # None /\ val.profile.user_id = c.user_id
       ELSE val.profile = None

\* C8 (as claimed): get_coach_data with neither id returns None; with a
\* coach_id that no Coach has it returns None; with the id of a Coach it
\* returns that coach, its User and that User's profile.
C8_GetCoachAsClaimed ==
    ret.op = "get_coach_data" =>
        /\ (ret.arg.coach_id = NoId /\ ret.arg.user_id = NoId) => ret.val = None
        /\ (/\ ret.arg.coach_id # NoId
            /\ \A c \in Rows(coaches) : c.id # ret.arg.coach_id) =>
               ret.val = None
        /\ \A c \in Rows(coaches) :
               c.id = ret.arg.coach_id => HoldsCoach(ret.val, c)

\* C8 (amended): as claimed, for a coach_id other than 0; a coach_id of 0
\* counts as not given.
C8_GetCoach ==
    ret.op = "get_coach_data" =>
        /\ (~Given(ret.arg.coach_id) /\ ~Given(ret.arg.user_id)) =>
               ret.val = None
        /\ (/\ Given(ret.arg.coach_id)
            /\ \A c \in Rows(coaches) : c.id # ret.arg.coach_id) =>
               ret.val = None
        /\ \A c \in Rows(coaches) :
               c.id = ret.arg.coach_id => HoldsCoach(ret.val, c)
        /\ ~ret.exc

\* The coach with the second id, whose user has a profile, has been fetched.
C8_Witness ==
    /\ ret.op = "get_coach_data"
    /\ ret.arg.coach_id = 2
    /\ ret.val # None
    /\ ret.val.profile # None
    /\ ret.val.coach.user_id # ret.val.coach.id

\* C9 (as claimed): when both identifiers are given, the coach matching
\* coach_id is returned when one exists, and otherwise the coach matching
\* user_id when one exists.
C9_FallbackAsClaimed ==
    (/\ ret.op = "get_coach_data"
     /\ ret.arg.coach_id # NoId
     /\ ret.arg.user_id # NoId) =>
        IF \E c \in Rows(coaches) : c.id = ret.arg.coach_id
        THEN ret.val # None /\ ret.val.coach.id = ret.arg.coach_id
        ELSE IF \E c \in Rows(coaches) : c.user_id = ret.arg.user_id
             THEN ret.val # None /\ ret.val.coach.user_id = ret.arg.user_id
             ELSE ret.val = None

\* C9 (amended): a given (non-zero) coach_id alone decides the lookup: the
\* coach with that id, or None, whatever user_id is; user_id is looked up only
\* when coach_id is not given; None when neither is given.
C9_CoachIdDecides ==
    ret.op = "get_coach_data" =>
        IF Given(ret.arg.coach_id)
        THEN IF \E c \in Rows(coaches) : c.id = ret.arg.coach_id
             THEN ret.val # None /\ ret.val.coach.id = ret.arg.coach_id
             ELSE ret.val = None
        ELSE IF Given(ret.arg.user_id)
             THEN IF \E c \in Rows(coaches) : c.user_id = ret.arg.user_id
                  THEN ret.val # None /\ ret.val.coach.user_id = ret.arg.user_id
                  ELSE ret.val = None
             ELSE ret.val = None

\* Both identifiers given, no coach has the coach_id, a coach has the
\* user_id, and None was returned.
C9_Witness ==
    /\ ret.op = "get_coach_data"
    /\ Given(ret.arg.coach_id)
    /\ \A c \in Rows(coaches) : c.id # ret.arg.coach_id
    /\ \E c \in Rows(coaches) : c.user_id = ret.arg.user_id
    /\ ret.val = None

HasRecord(user_id, token) ==
    \E v \in Rows(verifications) :
        v.user_id = user_id /\ v.verification_code = token

\* The message goes to the email of a user for whom a record with the
\* token of its link is committed.
MailBacked(m) ==
    \E u \in Rows(users) :
        /\ m.recipients = <<u.email>>
        /\ HasRecord(u.id, m.body[2][3])

C10_MailsBacked ==
    /\ \A i \in 1..Len(mails) : MailBacked(mails[i])
    /\ \A m \in pending : MailBacked(m)
    /\ (mails # <<>> \/ pending # {}) => enable_email
    /\ (ret.op = "send_message" /\ ret.exc) => MailBacked(ret.arg)

C10_SendStep ==
    /\ (ret'.op = "send_verification_email" /\ HasUserId(ret'.arg.user_id)) =>
           /\ Len(verifications') = Len(verifications) + 1
           /\ verifications'[Len(verifications')].verification_code =
                  ret'.arg.token
           /\ verifications'[Len(verifications')].user_id = ret'.arg.user_id
           /\ mails' = mails
           /\ ~enable_email => pending' = pending
    /\ ret'.op = "send_message" => verifications' = verifications

\* C10: a send_verification_email call whose user id resolves persists a
\* Verification record with the token and the user's id whatever the flag;
\* mail is dispatched only with the flag; every mail, dispatched or being
\* dispatched, goes to that user's email, links the token of a committed
\* record of that user, and the record remains when dispatch fails.
C10_RecordBeforeMail == []C10_MailsBacked /\ [][C10_SendStep]_vars

\* With the flag, one mail was sent and the dispatch of a second one failed.
C10_Witness ==
    /\ ret.op = "send_message"
    /\ ret.exc
    /\ Len(mails) = 1
    /\ Len(verifications) = 2

====
